---- MODULE Spec2Model ----
(***************************************************************************)
(* Model of cpal's PCM conversion core: src/src/conversions.rs             *)
(* (convert_samples_rate, convert_channels) and src/src/samples_formats.rs *)
(* (Sample::interpolate, Sample::to_vec_i16, Sample::to_vec_u16).          *)
(*                                                                         *)
(* Every function is pure; the state is the record of the call in          *)
(* progress: its arguments, its locals and its outcome.  A panic           *)
(* (assert!, index out of bounds, chunks(0), division by zero,             *)
(* unimplemented!, arithmetic overflow in a build with overflow checks)    *)
(* ends the call with pc = "panicked" and no result.                       *)
(***************************************************************************)
EXTENDS Integers, Sequences, FiniteSets

VARIABLES
    overflow_checks, \* build setting: TRUE = arithmetic overflow panics, FALSE = it wraps
    fn,              \* the function called last ("none" before the first call)
    T,               \* the Sample type of the call: "u16", "i16" or "u32"
    input,           \* input: &[T]
    from,            \* from argument (rate or channel count)
    to,              \* to argument (rate or channel count)
    channels,        \* channels argument of convert_samples_rate
    element,         \* number of chunks of input the upsampling loop has taken
    desired_time,    \* local of the upsampling branch
    push_time,       \* local of the upsampling branch
    result,          \* the Vec being built, and the returned value once pc = "returned"
    origin,          \* <<b>> when the input is what a format conversion made of the buffer b, else <<>>
    pc               \* "idle", "for", "while", "returned", "panicked"

vars == <<overflow_checks, fn, T, input, from, to, channels, element,
          desired_time, push_time, result, origin, pc>>

----------------------------------------------------------------------------
(* Bounds of the model *)

\* longest input buffer
MaxLen == 4
\* largest channel count passed to convert_channels / convert_samples_rate
MaxChannels == 3
\* largest small sample rate tried (the two rates above half of the width are added)
MaxRate == 5
\* SamplesRate holds a u32; the model scales its width down to RateBits bits
RateBits == 4

----------------------------------------------------------------------------
(* Machine arithmetic *)

Min2(a, b) == IF a < b THEN a ELSE b

RECURSIVE Pow2(_)
Pow2(n) == IF n = 0 THEN 1 ELSE 2 * Pow2(n - 1)

Types == {"u16", "i16", "u32"}

\* x fits the integer type ty (2^32 - 1 is written through its half: x \div 2 <= 2^31 - 1)
InRange(ty, x) ==
    CASE ty = "u16" -> x >= 0 /\ x <= 65535
      [] ty = "i16" -> x >= -32768 /\ x <= 32767
      [] ty = "u32" -> x >= 0 /\ (x \div 2) <= 2147483647

\* two's complement wrap of x into ty, for x at most one width outside the range
Wrap(ty, x) ==
    CASE ty = "u16" -> x % 65536
      [] ty = "i16" -> ((x + 32768) % 65536) - 32768
      [] ty = "u32" -> IF x < 0 THEN ((x + 2147483647) + 2147483647) + 2
                       ELSE IF InRange("u32", x) THEN x
                       ELSE ((x - 2147483647) - 2147483647) - 2

\* a call's outcome: a value, or a panic
Ok(v) == [ok |-> TRUE, val |-> v]
Panic == [ok |-> FALSE, val |-> <<>>]

\* the result of an arithmetic operator of type ty whose mathematical value is x
Arith(ty, x, checks) ==
    IF InRange(ty, x) THEN Ok(x)
    ELSE IF checks THEN Panic
    ELSE Ok(Wrap(ty, x))

\* Rust's integer division truncates toward zero (d > 0)
TruncDiv(x, d) == IF x >= 0 THEN x \div d ELSE -((-x) \div d)

----------------------------------------------------------------------------
(* Slices *)

\* number of chunks input.chunks(size) yields (size > 0)
NumChunks(s, size) == (Len(s) + size - 1) \div size

\* the k-th chunk (k from 1) of s.chunks(size); the last one may be shorter
Chunk(s, size, k) == SubSeq(s, (k - 1) * size + 1, Min2(k * size, Len(s)))

\* sample values the buffers are drawn from, per type
SampleValues(ty) ==
    CASE ty = "u16" -> {1, 40000}
      [] ty = "i16" -> {-20000, 3}
      [] ty = "u32" -> {5, 16777215}

Buffers(ty) == UNION {[1..n -> SampleValues(ty)] : n \in 0..MaxLen}

----------------------------------------------------------------------------
(* convert_channels, conversions.rs:98-122 *)

\* the pushes of one iteration of `for element in input.chunks(from)`
ChannelsFrameMutant(elem, f, t) ==
    IF Min2(f, t) > Len(elem) THEN Panic
    ELSE Ok([i \in 1..Min2(f, t) |-> elem[i]]
            \o (IF t > f THEN [i \in 1..(t - f) |-> elem[(i % Len(elem)) + 1]]
                ELSE <<>>))

ChannelsFrame(elem, f, t) ==
    IF Min2(f, t) > Len(elem) THEN Panic
    ELSE Ok([i \in 1..Min2(f, t) |-> elem[i]]
            \o (IF t > f THEN [i \in 1..(t - f) |-> elem[((i - 1) % Len(elem)) + 1]]
                ELSE <<>>))

RECURSIVE ChannelsLoop(_, _, _, _, _)
ChannelsLoop(s, f, t, k, acc) ==
    IF k > NumChunks(s, f) THEN Ok(acc)
    ELSE LET pushed == ChannelsFrame(Chunk(s, f, k), f, t)
         IN  IF pushed.ok THEN ChannelsLoop(s, f, t, k + 1, acc \o pushed.val)
             ELSE Panic

\* the three assert! of convert_channels
ChannelsAssertsMutant(s, f, t) == f # 0 /\ t # 0

ChannelsAsserts(s, f, t) == f # 0 /\ t # 0 /\ Len(s) % f = 0

convert_channels(s, f, t) ==
    IF ~ChannelsAsserts(s, f, t) THEN Panic
    ELSE ChannelsLoop(s, f, t, 1, <<>>)

----------------------------------------------------------------------------
(* Sample::interpolate, samples_formats.rs:52-54, 87-89, 125-127 *)

\* (self + other) / 2 in the type's own arithmetic
interpolate_u16(self, other, checks) ==
    LET sum == Arith("u16", self + other, checks)
    IN  IF sum.ok THEN Ok(TruncDiv(sum.val, 2)) ELSE Panic

interpolate_i16(self, other, checks) ==
    LET sum == Arith("i16", self + other, checks)
    IN  IF sum.ok THEN Ok(TruncDiv(sum.val, 2)) ELSE Panic

interpolate_u32(self, other, checks) ==
    LET sum == Arith("u32", self + other, checks)
    IN  IF sum.ok THEN Ok(TruncDiv(sum.val, 2)) ELSE Panic

\* dispatch of the trait method on the Sample type
interpolate(ty, self, other, checks) ==
    CASE ty = "u16" -> interpolate_u16(self, other, checks)
      [] ty = "i16" -> interpolate_i16(self, other, checks)
      [] ty = "u32" -> interpolate_u32(self, other, checks)

----------------------------------------------------------------------------
(* Sample::to_vec_i16 for u16 and Sample::to_vec_u16 for i16 *)

\* input.iter().map(f).collect(): panics when f panics on some element
Collect(outs) ==
    IF \A i \in DOMAIN outs : outs[i].ok THEN Ok([i \in DOMAIN outs |-> outs[i].val])
    ELSE Panic

\* the closure of <u16 as Sample>::to_vec_i16, samples_formats.rs:57-63
u16_to_i16_mutant(value, checks) ==
    IF value >= 32768 THEN
        LET d == Arith("u16", value - 32768, checks)
        IN  IF d.ok THEN Ok(Wrap("i16", d.val)) ELSE Panic
    ELSE
        Arith("i16", Wrap("i16", value) - 32767, checks)

u16_to_i16(value, checks) ==
    IF value >= 32768 THEN
        LET d == Arith("u16", value - 32768, checks)
        IN  IF d.ok THEN Ok(Wrap("i16", d.val)) ELSE Panic
    ELSE
        LET d == Arith("i16", Wrap("i16", value) - 32767, checks)
        IN  IF d.ok THEN Arith("i16", d.val - 1, checks) ELSE Panic

\* the closure of <i16 as Sample>::to_vec_u16, samples_formats.rs:96-102
i16_to_u16(value, checks) ==
    IF value < 0 THEN
        LET a == Arith("i16", value + 32767, checks)
            b == IF a.ok THEN Arith("i16", a.val + 1, checks) ELSE Panic
        IN  IF b.ok THEN Ok(Wrap("u16", b.val)) ELSE Panic
    ELSE
        Arith("u16", Wrap("u16", value) + 32768, checks)

to_vec_i16(s, checks) == Collect([i \in 1..Len(s) |-> u16_to_i16(s[i], checks)])

to_vec_u16(s, checks) == Collect([i \in 1..Len(s) |-> i16_to_u16(s[i], checks)])

----------------------------------------------------------------------------
(* convert_samples_rate, conversions.rs:10-86 *)

\* SamplesRate wraps a u32, here RateBits wide
RateModulus == Pow2(RateBits)

\* `from * 2` (conversions.rs:31) in the rate's unsigned type
RateDouble(f, checks) ==
    IF f * 2 < RateModulus THEN Ok(f * 2)
    ELSE IF checks THEN Panic
    ELSE Ok((f * 2) % RateModulus)

\* the branch the four tests of conversions.rs:19, 31, 54, 85 select
Branch(f, t, checks) ==
    IF t = 0 THEN "panic"
    ELSE IF f % t = 0 THEN "decimate"
    ELSE IF ~RateDouble(f, checks).ok THEN "panic"
    ELSE IF t = RateDouble(f, checks).val THEN "double"
    ELSE IF t > f THEN "upsample"
    ELSE "unimplemented"

\* conversions.rs:20-26, the loop over input.chunks(channels * (from / to))
RECURSIVE DecimateLoop(_, _, _, _, _)
DecimateLoopMutant(s, size, c, k, acc) ==
    IF k > NumChunks(s, size) THEN Ok(acc)
    ELSE LET elem == Chunk(s, size, k)
         IN  IF c > Len(elem) THEN Panic
             ELSE DecimateLoop(s, size, c, k + 1, acc \o SubSeq(elem, Len(elem) - c + 1, Len(elem)))

DecimateLoop(s, size, c, k, acc) ==
    IF k > NumChunks(s, size) THEN Ok(acc)
    ELSE LET elem == Chunk(s, size, k)
         IN  IF c > Len(elem) THEN Panic
             ELSE DecimateLoop(s, size, c, k + 1, acc \o SubSeq(elem, 1, c))

Decimate(s, f, t, c) ==
    IF c * (f \div t) = 0 THEN Panic
    ELSE DecimateLoop(s, c * (f \div t), c, 1, <<>>)

\* conversions.rs:35-46, the pushes for one chunk; prev is <<>> for None
DoubleFrame(ty, prev, elem, hasPrev, checks) ==
    IF hasPrev THEN
        LET n == Min2(Len(prev), Len(elem))
            mid == Collect([i \in 1..n |-> interpolate(ty, prev[i], elem[i], checks)])
        IN  IF mid.ok THEN Ok(mid.val \o elem) ELSE Panic
    ELSE Ok(elem)

\* conversions.rs:32-50, the loop over input.chunks(channels)
RECURSIVE DoubleLoop(_, _, _, _, _, _)
DoubleLoop(ty, s, c, k, acc, checks) ==
    IF k > NumChunks(s, c) THEN Ok(acc)
    ELSE LET prev   == IF k > 1 THEN Chunk(s, c, k - 1) ELSE <<>>
             pushed == DoubleFrame(ty, prev, Chunk(s, c, k), k > 1, checks)
         IN  IF pushed.ok THEN DoubleLoop(ty, s, c, k + 1, acc \o pushed.val, checks)
             ELSE Panic

DoubleMutant(ty, s, c, checks) ==
    IF c = 0 THEN Panic
    ELSE DoubleLoop(ty, s, 1, 1, <<>>, checks)

Double(ty, s, c, checks) ==
    IF c = 0 THEN Panic
    ELSE DoubleLoop(ty, s, c, 1, <<>>, checks)

\* the outcome of the branches that run to their end in one step: decimation,
\* doubling, and the panics (division by zero at :19, overflow at :31 in a
\* build that checks it, chunks(0) at :68, unimplemented!() at :85)
Straight(ty, s, f, t, c, checks) ==
    CASE Branch(f, t, checks) = "decimate" -> Decimate(s, f, t, c)
      [] Branch(f, t, checks) = "double"   -> Double(ty, s, c, checks)
      [] OTHER                             -> Panic

----------------------------------------------------------------------------
(* Inputs *)

\* sample types the rate and channel converters are called with
BufferTypes == {"u16", "i16"}

\* `to` channel counts of convert_channels go past twice the largest `from`
MaxTo == 2 * MaxChannels

\* rates: the small ones, and two in the upper half of the unsigned range
Rates == (0..MaxRate) \cup {Pow2(RateBits - 1) + 1, RateModulus - 1}

\* every value 16 bits hold, per type
AllValues(ty) ==
    CASE ty = "u16" -> 0..65535
      [] ty = "i16" -> -32768..32767

\* pairs interpolate is called with
InterpValues(ty) ==
    CASE ty = "u16" -> {0, 1, 2, 32767, 32768, 40000, 65534, 65535}
      [] ty = "i16" -> {-32768, -32767, -20000, -2, -1, 0, 1, 20000, 32767}
      [] ty = "u32" -> {0, 1, 8388608, 16777214, 16777215}

\* buffers the format conversions are called with
FormatBuffers(ty) ==
    {<<v>> : v \in AllValues(ty)}
        \cup {<<>>}
        \cup {<<v, w>> : v \in {0, 32767}, w \in {-1, 65535} \cap AllValues(ty)}

----------------------------------------------------------------------------
(* The state machine *)

Init ==
    /\ overflow_checks \in BOOLEAN
    /\ fn = "none"
    /\ T = "u16"
    /\ input = <<>>
    /\ from = 0
    /\ to = 0
    /\ channels = 0
    /\ element = 0
    /\ desired_time = 0
    /\ push_time = 0
    /\ result = <<>>
    /\ origin = <<>>
    /\ pc = "idle"

\* nothing was called yet: the functions keep no state across calls, so a
\* behaviour is one call (or one chain of two format conversions)
Callable == pc = "idle"

\* a call that ran to its end with the outcome out
Finish(out) ==
    /\ result' = out.val
    /\ pc' = IF out.ok THEN "returned" ELSE "panicked"

NoLocals ==
    /\ element' = 0
    /\ desired_time' = 0
    /\ push_time' = 0

\* convert_channels(input, from, to)
CallConvertChannels ==
    /\ Callable
    /\ \E ty \in BufferTypes : \E s \in Buffers(ty) :
       \E f \in 0..MaxChannels, t \in 0..MaxTo :
          /\ fn' = "convert_channels"
          /\ T' = ty
          /\ input' = s
          /\ from' = f
          /\ to' = t
          /\ Finish(convert_channels(s, f, t))
    /\ channels' = 0
    /\ origin' = <<>>
    /\ NoLocals
    /\ UNCHANGED overflow_checks

\* convert_samples_rate(input, from, to, channels): the decimation and doubling
\* branches and the panics run to their end; the upsampling branch
\* (conversions.rs:54-67) enters its loop
CallConvertSamplesRate ==
    /\ Callable
    /\ \E ty \in BufferTypes : \E s \in Buffers(ty) :
       \E f \in Rates, t \in Rates, c \in 0..MaxChannels :
          /\ fn' = "convert_samples_rate"
          /\ T' = ty
          /\ input' = s
          /\ from' = f
          /\ to' = t
          /\ channels' = c
          /\ IF Branch(f, t, overflow_checks) = "upsample" /\ c # 0
             THEN /\ result' = <<>>
                  /\ pc' = "for"
             ELSE Finish(Straight(ty, s, f, t, c, overflow_checks))
    /\ origin' = <<>>
    /\ NoLocals
    /\ UNCHANGED overflow_checks

\* conversions.rs:68-73: the next chunk is pushed once and the counters advance;
\* conversions.rs:82: the result is returned when the chunks are exhausted.
\* The counters are i64: sums of u32 rates over the frames of a buffer stay
\* far inside their range.
UpsampleFor ==
    /\ pc = "for"
    /\ IF element < NumChunks(input, channels)
       THEN /\ result' = result \o Chunk(input, channels, element + 1)
            /\ desired_time' = desired_time + to
            /\ push_time' = push_time + from
            /\ element' = element + 1
            /\ pc' = "while"
       ELSE /\ pc' = "returned"
            /\ UNCHANGED <<result, desired_time, push_time, element>>
    /\ UNCHANGED <<overflow_checks, fn, T, input, from, to, channels, origin>>

\* conversions.rs:75-80: one test of the while condition, and its body
UpsampleWhileMutant ==
    /\ pc = "while"
    /\ IF desired_time - push_time >= 0
       THEN /\ result' = result \o Chunk(input, channels, element)
            /\ push_time' = push_time + from
            /\ pc' = "while"
       ELSE /\ pc' = "for"
            /\ UNCHANGED <<result, push_time>>
    /\ UNCHANGED <<overflow_checks, fn, T, input, from, to, channels, origin,
                   element, desired_time>>

UpsampleWhile ==
    /\ pc = "while"
    /\ IF desired_time - push_time > 0
       THEN /\ result' = result \o Chunk(input, channels, element)
            /\ push_time' = push_time + from
            /\ pc' = "while"
       ELSE /\ pc' = "for"
            /\ UNCHANGED <<result, push_time>>
    /\ UNCHANGED <<overflow_checks, fn, T, input, from, to, channels, origin,
                   element, desired_time>>

\* self.interpolate(other); input holds <<self, other>>
CallInterpolate ==
    /\ Callable
    /\ \E ty \in Types : \E a \in InterpValues(ty), b \in InterpValues(ty) :
          /\ fn' = "interpolate"
          /\ T' = ty
          /\ input' = <<a, b>>
          /\ LET out == interpolate(ty, a, b, overflow_checks)
             IN  Finish(IF out.ok THEN Ok(<<out.val>>) ELSE Panic)
    /\ from' = 0
    /\ to' = 0
    /\ channels' = 0
    /\ origin' = <<>>
    /\ NoLocals
    /\ UNCHANGED overflow_checks

\* a format conversion of the buffer s of type ty, which the caller got from src
Convert(name, ty, s, src, out) ==
    /\ fn' = name
    /\ T' = ty
    /\ input' = s
    /\ origin' = src
    /\ Finish(out)
    /\ from' = 0
    /\ to' = 0
    /\ channels' = 0
    /\ NoLocals
    /\ UNCHANGED overflow_checks

\* Sample::to_vec_u16(&[i16])
CallToVecU16 ==
    /\ Callable
    /\ \E s \in FormatBuffers("i16") :
          Convert("to_vec_u16", "i16", s, <<>>, to_vec_u16(s, overflow_checks))

\* Sample::to_vec_i16(&[u16])
CallToVecI16 ==
    /\ Callable
    /\ \E s \in FormatBuffers("u16") :
          Convert("to_vec_i16", "u16", s, <<>>, to_vec_i16(s, overflow_checks))

\* Sample::to_vec_i16 applied to what Sample::to_vec_u16 returned
ChainToVecI16 ==
    /\ pc = "returned"
    /\ fn = "to_vec_u16"
    /\ Convert("to_vec_i16", "u16", result, <<input>>, to_vec_i16(result, overflow_checks))

\* Sample::to_vec_u16 applied to what Sample::to_vec_i16 returned
ChainToVecU16 ==
    /\ pc = "returned"
    /\ fn = "to_vec_i16"
    /\ Convert("to_vec_u16", "i16", result, <<input>>, to_vec_u16(result, overflow_checks))

NextChannels == CallConvertChannels

NextRate == CallConvertSamplesRate \/ UpsampleFor \/ UpsampleWhile

NextSample == CallInterpolate

NextFormat == CallToVecU16 \/ CallToVecI16 \/ ChainToVecI16 \/ ChainToVecU16

Next == NextChannels \/ NextRate \/ NextSample \/ NextFormat

SpecChannels == Init /\ [][NextChannels]_vars

SpecRate == Init /\ [][NextRate]_vars

\* the code runs to its end: a loop that can take a step takes it
FairSpecRate == SpecRate /\ WF_vars(UpsampleFor) /\ WF_vars(UpsampleWhile)

SpecSample == Init /\ [][NextSample]_vars

SpecFormat == Init /\ [][NextFormat]_vars

Spec == Init /\ [][Next]_vars

----------------------------------------------------------------------------
(* Properties *)

Ceil(a, b) == (a + b - 1) \div b

Max2(a, b) == IF a < b THEN b ELSE a

\* frame j (from 0) of the interleaved buffer s of c channels
Frame(s, c, j) == SubSeq(s, j * c + 1, (j + 1) * c)

Called(name) == fn = name /\ pc # "idle"

\* C1: for from >= 1, to >= 1 and a buffer of whole frames, convert_channels
\* returns (length / from) * to samples with
\* output[j*to + c] = input[j*from + (c % from)] for every frame j and every
\* destination channel c.
C1_ChannelsMapping ==
    (Called("convert_channels") /\ from >= 1 /\ to >= 1 /\ Len(input) % from = 0)
        => /\ pc = "returned"
           /\ Len(result) = (Len(input) \div from) * to
           /\ \A j \in 0..((Len(input) \div from) - 1) : \A c \in 0..(to - 1) :
                 result[j * to + c + 1] = input[j * from + (c % from) + 1]

C1_Witness ==
    /\ Called("convert_channels") /\ pc = "returned"
    /\ from = 2 /\ to = 5 /\ Len(input) = 4
    /\ input[1] # input[2]
    /\ Len(result) = 10

\* C2: convert_channels panics, with no result, exactly when from = 0 or
\* to = 0 or the length is not a multiple of from.
C2_ChannelsPanics ==
    Called("convert_channels")
        => /\ pc = "panicked" <=> (from = 0 \/ to = 0 \/ Len(input) % from # 0)
           /\ pc = "panicked" => result = <<>>
           /\ pc \in {"panicked", "returned"}

C2_Witness ==
    /\ Called("convert_channels") /\ pc = "panicked"
    /\ from = 2 /\ to = 1 /\ Len(input) = 3

\* C3: convert_samples_rate called with a buffer whose length is not a multiple
\* of the channel count panics, in every rate case, and returns no output.
C3_PartialFrameAborts ==
    (Called("convert_samples_rate") /\ channels >= 1 /\ Len(input) % channels # 0)
        => pc = "panicked"

\* C4: when to = 2 * from, N >= 1 frames of C channels give 2N - 1 frames:
\* frame 0 is input frame 0, frame 2j-1 is the per-channel interpolate of the
\* input frames j-1 and j, frame 2j is input frame j (a count of 2N - 1 has
\* no meaning for N = 0, so the statement is taken for N >= 1).
C4_DoublingFrames ==
    (Called("convert_samples_rate") /\ from >= 1 /\ to = 2 * from
        /\ channels >= 1 /\ Len(input) % channels = 0 /\ Len(input) >= channels)
        => LET N == Len(input) \div channels
           IN  /\ pc = "returned"
               /\ Len(result) = (2 * N - 1) * channels
               /\ Frame(result, channels, 0) = Frame(input, channels, 0)
               /\ \A j \in 1..(N - 1) :
                     /\ Frame(result, channels, 2 * j) = Frame(input, channels, j)
                     /\ \A c \in 1..channels :
                           LET mid == interpolate(T, Frame(input, channels, j - 1)[c],
                                                  Frame(input, channels, j)[c],
                                                  overflow_checks)
                           IN  mid.ok /\ Frame(result, channels, 2 * j - 1)[c] = mid.val

\* C5: interpolate(a, b) is the truncated average of the mathematical sum
\* a + b and lies between min(a, b) and max(a, b), for u16, i16 and u32
\* holding 24-bit values.
C5_InterpolateAverage ==
    Called("interpolate")
        => /\ pc = "returned"
           /\ result = <<TruncDiv(input[1] + input[2], 2)>>
           /\ result[1] >= Min2(input[1], input[2])
           /\ result[1] <= Max2(input[1], input[2])

\* C6: when from % to = 0 with k = from / to, N whole frames give ceil(N / k)
\* frames, output frame j being input frame j*k, and from = to gives the
\* input back.
C6_Decimation ==
    (Called("convert_samples_rate") /\ from >= 1 /\ to >= 1 /\ from % to = 0
        /\ channels >= 1 /\ Len(input) % channels = 0)
        => LET N == Len(input) \div channels
               k == from \div to
           IN  /\ pc = "returned"
               /\ Len(result) = Ceil(N, k) * channels
               /\ \A j \in 0..(N - 1) :
                     j * k < N => Frame(result, channels, j) = Frame(input, channels, j * k)
               /\ from = to => result = input

C6_Witness ==
    /\ Called("convert_samples_rate") /\ pc = "returned"
    /\ from = 4 /\ to = 2 /\ channels = 1
    /\ Len(input) = 3 /\ input[1] # input[2] /\ input[2] # input[3]
    /\ Len(result) = 2

\* C7: for positive rates with to < from and from % to # 0,
\* convert_samples_rate panics for every buffer and returns no output.
C7_GeneralDownsamplingFails ==
    (Called("convert_samples_rate") /\ to >= 1 /\ to < from /\ from % to # 0)
        => pc = "panicked" /\ result = <<>>

\* C8: I16 -> U16 yields v + 32768, U16 -> I16 yields v - 32768, each round
\* trip gives the buffer back, and no conversion panics in a build that
\* checks overflow (no intermediate result leaves the range of its type).
C8_RoundTrip ==
    /\ Called("to_vec_u16")
          => /\ pc = "returned"
             /\ Len(result) = Len(input)
             /\ \A i \in 1..Len(input) : result[i] = input[i] + 32768
             /\ origin # <<>> => result = origin[1]
    /\ Called("to_vec_i16")
          => /\ pc = "returned"
             /\ Len(result) = Len(input)
             /\ \A i \in 1..Len(input) : result[i] = input[i] - 32768
             /\ origin # <<>> => result = origin[1]

C8_Witness ==
    /\ Called("to_vec_i16") /\ pc = "returned" /\ overflow_checks
    /\ origin = << <<-32768>> >>
    /\ input = <<0>>
    /\ result = <<-32768>>

\* an output frame is a whole input frame, or the interpolation of two
\* neighbouring input frames
WholeFrame(fr) ==
    LET N == Len(input) \div channels
    IN  \/ \E j \in 0..(N - 1) : fr = Frame(input, channels, j)
        \/ \E j \in 1..(N - 1) : \A c \in 1..channels :
              LET mid == interpolate(T, Frame(input, channels, j - 1)[c],
                                     Frame(input, channels, j)[c], overflow_checks)
              IN  mid.ok /\ fr[c] = mid.val

\* C9: for an input of whole frames the output of convert_samples_rate, also
\* while it is being built, is made of whole frames, each an input frame or
\* an interpolated frame.
C9_WholeFrames ==
    (Called("convert_samples_rate") /\ pc # "panicked"
        /\ channels >= 1 /\ Len(input) % channels = 0)
        => /\ Len(result) % channels = 0
           /\ \A m \in 0..((Len(result) \div channels) - 1) :
                 WholeFrame(Frame(result, channels, m))

C9_Witness ==
    /\ Called("convert_samples_rate") /\ pc = "returned"
    /\ from = 1 /\ to = 2 /\ channels = 2
    /\ Len(input) = 4 /\ input[1] # input[2]
    /\ Len(result) = 6

\* the first n chunks, chunk j repeated ceil(j*to/from) - ceil((j-1)*to/from) times
RECURSIVE Repeat(_, _)
Repeat(fr, n) == IF n = 0 THEN <<>> ELSE fr \o Repeat(fr, n - 1)

RECURSIVE Stretched(_)
Stretched(n) ==
    IF n = 0 THEN <<>>
    ELSE Stretched(n - 1)
            \o Repeat(Chunk(input, channels, n),
                      Ceil(n * to, from) - Ceil((n - 1) * to, from))

InUpsampling ==
    /\ Called("convert_samples_rate")
    /\ Branch(from, to, overflow_checks) = "upsample"
    /\ channels # 0

\* after each input frame: the counters, and what has been emitted
UpsampleInv ==
    (InUpsampling /\ pc \in {"for", "returned"})
        => /\ 0 <= push_time - desired_time
           /\ push_time - desired_time < from
           /\ desired_time = element * to
           /\ push_time = from * Ceil(element * to, from)
           /\ \A j \in 1..element : Ceil(j * to, from) - Ceil((j - 1) * to, from) >= 1
           /\ result = Stretched(element)
           /\ Len(input) % channels = 0
                 => Len(result) = Ceil(element * to, from) * channels
           /\ pc = "returned" => element = NumChunks(input, channels)

\* C10: in the general upsampling branch, after each input frame
\* 0 <= push_time - desired_time < from, every frame so far has been emitted
\* at least once, its copies consecutive and in input order, ceil(n*to/from)
\* frames in all; and the loops end: the call returns.
C10_Upsampling ==
    /\ []UpsampleInv
    /\ [](pc \in {"for", "while"} => <>(pc = "returned"))

C10_Witness ==
    /\ InUpsampling /\ pc = "returned"
    /\ from = 3 /\ to = 5 /\ channels = 1
    /\ Len(input) = 4 /\ input[1] # input[2]
    /\ Len(result) = 7

====
